---- MODULE Spec2Model ----
(***************************************************************************)
(* log4j-rs: JavaLogger, a bridge from Rust threads to a log4j Logger      *)
(* living in an embedded JVM (src/src/logger.rs, src/src/error.rs).        *)
(*                                                                         *)
(* A thread is either idle, inside JavaLogger::new, inside JavaLogger::log,*)
(* or it is module-internal code that locked `inner` itself and calls one  *)
(* of the private log_error/log_warn/log_info/log_debug functions, as the  *)
(* unit tests of logger.rs do.  A program counter that names a JNI call    *)
(* means the thread is inside that call; the action at that program        *)
(* counter is the call's return, successful or not.                        *)
(***************************************************************************)
EXTENDS Naturals, Sequences, FiniteSets

\* ------------------------------------------------------------- bounds
NThreads == 2
MaxBridges == 2
MaxOps == 3

Threads == 1..NThreads
Slots == 1..MaxBridges
NoThread == 0
NoSlot == 0

\* ------------------------------------------------------------- inputs
ClassNames == {"app.Test", "app.Other"}
Messages == {"", "A"}

\* pub enum LogLevel
LogLevel == {"Error", "Warn", "Info", "Debug"}

\* ------------------------------------------------------------- constants of logger.rs
LOG_MANAGER_CLASS == "org/apache/log4j/LogManager"
CATEGORY_CLASS == "org/apache/log4j/Category"
GET_LOGGER_SIG == "(Ljava/lang/String;)Lorg/apache/log4j/Logger;"
LOG_METHOD_SIG == "(Ljava/lang/Object;)V"

\* ------------------------------------------------------------- values
NullRef == [ref |-> "null"]
NoError == [kind |-> "none", cause |-> "none"]
NoRes == [tag |-> "None", err |-> NoError]
Ok == [tag |-> "Ok", err |-> NoError]
Panic == [tag |-> "Panic", err |-> NoError]

\* error.rs: enum Error { Java(#[from] jni::errors::Error) }; `?` converts with From
FromJni_DropCause(cause) == [kind |-> "Java", cause |-> "unknown"]

FromJni(cause) == [kind |-> "Java", cause |-> cause]

Err(cause) == [tag |-> "Err", err |-> FromJni(cause)]

\* ------------------------------------------------------------- the foreign runtime
\* The failure a JNI function can report (jni::errors::Error), by function.
JniFailure(kind) ==
    CASE kind = "find_class" -> "JavaException"
      [] kind = "new_string" -> "NullPtr"
      [] kind = "call_static_method" -> "JavaException"
      [] kind = "get_method_id" -> "MethodNotFound"
      [] kind = "call_method" -> "JavaException"

\* env.find_class(name)
FindClass(name) == [ref |-> "class", class |-> name]

\* env.new_string(content): a java.lang.String with that content
NewString(content) == [ref |-> "jstring", chars |-> content]

\* JValue::Object(str.into())
JValueObject(obj) == [jvalue |-> "Object", obj |-> obj]

\* LogManager.getLogger(String): the Logger of that category, as a JValue
CallStaticMethod(class, method, sig, arg) ==
    JValueObject([ref |-> "logger", category |-> arg.obj.chars, via |-> class.class, method |-> method, sig |-> sig])

\* JValue::l(): the object of an Object value
JValueL(v) == v.obj

\* env.get_method_id(class, name, sig)
GetMethodId(class, name, sig) == [ref |-> "method", class |-> class.class, name |-> name, sig |-> sig]

\* ------------------------------------------------------------- state
VARIABLES
    th,        \* per thread: program counter, the running call's arguments, locals and JNI calls
    bridges,   \* per slot: the InnerLogger of the JavaLogger constructed there
    mutex,     \* per slot: the Mutex around that InnerLogger
    backend,   \* per slot: how many records log4j received through that bridge
    hist,      \* per slot, history: how the log calls made on that bridge ended
    nOps       \* operations started so far

vars == <<th, bridges, mutex, backend, hist, nOps>>

NoBridge == [env |-> NoThread]
NoMutex == [holder |-> NoThread, poisoned |-> FALSE]
NoHist == [built |-> FALSE, name |-> "", ok |-> 0, failed |-> FALSE, panicked |-> FALSE]
NoLocals == [logger |-> NullRef, category_class |-> NullRef, info_method |-> NullRef,
             error_method |-> NullRef, warn_method |-> NullRef]

IdleThread ==
    [pc |-> "idle", op |-> "none", b |-> NoSlot, fn |-> "none", level |-> "none",
     text |-> "", env |-> NoThread, tmp |-> NullRef, loc |-> NoLocals, res |-> NoRes,
     trace |-> <<>>, heldBefore |-> FALSE, heldAfter |-> FALSE, afterFailure |-> FALSE]

DeadThread == [IdleThread EXCEPT !.pc = "panicked"]

Init ==
    /\ th = [t \in Threads |-> IdleThread]
    /\ bridges = [s \in Slots |-> NoBridge]
    /\ mutex = [s \in Slots |-> NoMutex]
    /\ backend = [s \in Slots |-> 0]
    /\ hist = [s \in Slots |-> NoHist]
    /\ nOps = 0

\* ------------------------------------------------------------- helpers
Exists(b) == b \in Slots /\ bridges[b] # NoBridge

\* the thread owns a MutexGuard of the bridge's `inner`
HoldsLock(t, b) == b \in Slots /\ mutex[b].holder = t

\* Mutex::lock() blocks while another guard is alive
CanLock_NoExclusion(m) == TRUE

CanLock(m) == m.holder = NoThread

\* Mutex::lock(): the guard handed out
Locked_NoHolder(m, t) == m

Locked(m, t) == [m EXCEPT !.holder = t]

\* MutexGuard::drop: release; a guard dropped by a panicking thread poisons the mutex
Unlock_KeepHolder(m, panicking) == [m EXCEPT !.poisoned = m.poisoned \/ panicking]

Unlock(m, panicking) == [m EXCEPT !.holder = NoThread, !.poisoned = m.poisoned \/ panicking]

\* match level { LogLevel::Error => Self::log_error(..), .. }
Dispatch_Swapped(level) ==
    CASE level = "Error" -> "log_error"
      [] level = "Warn" -> "log_warn"
      [] level = "Info" -> "log_debug"
      [] level = "Debug" -> "log_info"

Dispatch(level) ==
    CASE level = "Error" -> "log_error"
      [] level = "Warn" -> "log_warn"
      [] level = "Info" -> "log_info"
      [] level = "Debug" -> "log_debug"

LogFns == {"log_error", "log_warn", "log_info", "log_debug"}

\* the method handle each log_* function passes to call_method_unchecked
MethodOf_AllError(fn, inner) == inner.error_method

MethodOf(fn, inner) ==
    CASE fn = "log_error" -> inner.error_method
      [] fn = "log_warn" -> inner.warn_method
      [] fn = "log_info" -> inner.info_method
      [] fn = "log_debug" -> inner.debug_method

\* Ok(Self { inner: Arc::new(Mutex::new(InnerLogger { .. })) })
InnerLogger(env, loc, debug_method) ==
    [env |-> env, logger |-> loc.logger, info_method |-> loc.info_method,
     error_method |-> loc.error_method, warn_method |-> loc.warn_method,
     debug_method |-> debug_method]

NextSlot == CHOOSE s \in Slots : bridges[s] = NoBridge /\ \A r \in Slots : r < s => bridges[r] # NoBridge

Constructing == {t \in Threads : th[t].op = "new" /\ th[t].pc # "returned"}

\* one JNI call of thread t, as the foreign runtime sees it
Event(t, kind, arg, obj, mid, val, ok) ==
    [thread |-> t, env |-> th[t].env, kind |-> kind, arg |-> arg, obj |-> obj, mid |-> mid,
     val |-> val, ok |-> ok, cause |-> IF ok THEN "none" ELSE JniFailure(kind),
     locked |-> HoldsLock(t, th[t].b)]

\* the operation of thread t returns res to its caller
Returned(t, b, trace, res, after) ==
    [th[t] EXCEPT !.pc = "returned", !.b = b, !.trace = trace, !.res = res, !.heldAfter = after,
                  !.tmp = NullRef, !.loc = NoLocals]

\* ------------------------------------------------------------- JavaLogger::new
New(t, name) ==
    /\ th[t].pc = "idle"
    /\ nOps < MaxOps
    /\ Cardinality({s \in Slots : bridges[s] # NoBridge}) + Cardinality(Constructing) < MaxBridges
    /\ nOps' = nOps + 1
    /\ th' = [th EXCEPT ![t] = [IdleThread EXCEPT !.pc = "find_class_lm", !.op = "new",
                                                  !.text = name, !.env = t]]
    /\ UNCHANGED <<bridges, mutex, backend, hist>>

\* `?` in new: the error leaves the function, nothing was built
NewFail_Partial(t, ev) ==
    /\ th' = [th EXCEPT ![t] = Returned(t, NoSlot, Append(th[t].trace, ev), Err(ev.cause), FALSE)]
    /\ bridges' = [bridges EXCEPT ![NextSlot] = InnerLogger(th[t].env, th[t].loc, NullRef)]
    /\ UNCHANGED <<mutex, backend, hist, nOps>>

NewFail(t, ev) ==
    /\ th' = [th EXCEPT ![t] = Returned(t, NoSlot, Append(th[t].trace, ev), Err(ev.cause), FALSE)]
    /\ UNCHANGED <<bridges, mutex, backend, hist, nOps>>

\* a JNI call of new returned: on success the next call is entered
NewStep_IgnoreFailure(t, ev, next, tmp, loc) ==
    /\ th' = [th EXCEPT ![t].pc = next, ![t].tmp = tmp, ![t].loc = loc,
                        ![t].trace = Append(@, ev)]
    /\ UNCHANGED <<bridges, mutex, backend, hist, nOps>>

NewStep(t, ev, next, tmp, loc) ==
    IF ev.ok
    THEN /\ th' = [th EXCEPT ![t].pc = next, ![t].tmp = tmp, ![t].loc = loc,
                             ![t].trace = Append(@, ev)]
         /\ UNCHANGED <<bridges, mutex, backend, hist, nOps>>
    ELSE NewFail(t, ev)

FindClassLogManager(t) ==
    /\ th[t].pc = "find_class_lm"
    /\ \E ok \in BOOLEAN :
         LET class == FindClass(LOG_MANAGER_CLASS)
         IN NewStep(t, Event(t, "find_class", LOG_MANAGER_CLASS, NullRef, NullRef, class, ok),
                    "new_string_name", class, th[t].loc)

\* Self::jstring(env, class_name.as_ref())?, evaluated before call_static_method
JStringName(t) ==
    /\ th[t].pc = "new_string_name"
    /\ \E ok \in BOOLEAN :
         LET str == NewString(th[t].text)
         IN NewStep(t, Event(t, "new_string", th[t].text, NullRef, NullRef, str, ok),
                    "get_logger", [class |-> th[t].tmp, arg |-> JValueObject(str)], th[t].loc)

\* env.call_static_method(log_manager_class, "getLogger", .., &[jstring])?.l()?
GetLogger(t) ==
    /\ th[t].pc = "get_logger"
    /\ \E ok \in BOOLEAN :
         LET logger == JValueL(CallStaticMethod(th[t].tmp.class, "getLogger", GET_LOGGER_SIG, th[t].tmp.arg))
         IN NewStep(t, Event(t, "call_static_method", "getLogger", th[t].tmp.class, NullRef, logger, ok),
                    "find_class_category", NullRef, [th[t].loc EXCEPT !.logger = logger])

FindClassCategory(t) ==
    /\ th[t].pc = "find_class_category"
    /\ \E ok \in BOOLEAN :
         LET class == FindClass(CATEGORY_CLASS)
         IN NewStep(t, Event(t, "find_class", CATEGORY_CLASS, NullRef, NullRef, class, ok),
                    "get_method_info", NullRef, [th[t].loc EXCEPT !.category_class = class])

GetMethodInfo(t) ==
    /\ th[t].pc = "get_method_info"
    /\ \E ok \in BOOLEAN :
         LET mid == GetMethodId(th[t].loc.category_class, "info", LOG_METHOD_SIG)
         IN NewStep(t, Event(t, "get_method_id", "info", th[t].loc.category_class, NullRef, mid, ok),
                    "get_method_error", NullRef, [th[t].loc EXCEPT !.info_method = mid])

GetMethodError(t) ==
    /\ th[t].pc = "get_method_error"
    /\ \E ok \in BOOLEAN :
         LET mid == GetMethodId(th[t].loc.category_class, "error", LOG_METHOD_SIG)
         IN NewStep(t, Event(t, "get_method_id", "error", th[t].loc.category_class, NullRef, mid, ok),
                    "get_method_warn", NullRef, [th[t].loc EXCEPT !.error_method = mid])

GetMethodWarn(t) ==
    /\ th[t].pc = "get_method_warn"
    /\ \E ok \in BOOLEAN :
         LET mid == GetMethodId(th[t].loc.category_class, "warn", LOG_METHOD_SIG)
         IN NewStep(t, Event(t, "get_method_id", "warn", th[t].loc.category_class, NullRef, mid, ok),
                    "get_method_debug", NullRef, [th[t].loc EXCEPT !.warn_method = mid])

\* Ok(Self { .. }): the bridge exists from here on
NewOk(t, ev, mid) ==
    /\ bridges' = [bridges EXCEPT ![NextSlot] = InnerLogger(th[t].env, th[t].loc, mid)]
    /\ mutex' = [mutex EXCEPT ![NextSlot] = NoMutex]
    /\ hist' = [hist EXCEPT ![NextSlot].built = TRUE, ![NextSlot].name = th[t].text]
    /\ th' = [th EXCEPT ![t] = Returned(t, NextSlot, Append(th[t].trace, ev), Ok, FALSE)]
    /\ UNCHANGED <<backend, nOps>>

\* the last resolution; on success new returns the bridge
GetMethodDebug(t) ==
    /\ th[t].pc = "get_method_debug"
    /\ \E ok \in BOOLEAN :
         LET mid == GetMethodId(th[t].loc.category_class, "debug", LOG_METHOD_SIG)
             ev == Event(t, "get_method_id", "debug", th[t].loc.category_class, NullRef, mid, ok)
         IN IF ok THEN NewOk(t, ev, mid) ELSE NewFail(t, ev)

\* ------------------------------------------------------------- JavaLogger::log
Log(t, b, level, msg) ==
    /\ th[t].pc = "idle"
    /\ nOps < MaxOps
    /\ Exists(b)
    /\ nOps' = nOps + 1
    /\ th' = [th EXCEPT ![t] = [IdleThread EXCEPT !.pc = "lock", !.op = "log", !.b = b,
                                                  !.level = level, !.text = msg,
                                                  !.env = bridges[b].env,
                                                  !.heldBefore = HoldsLock(t, b),
                                                  !.afterFailure = hist[b].failed]]
    /\ UNCHANGED <<bridges, mutex, backend, hist>>

\* .expect("Failed to lock inner logger") on a poisoned mutex: the thread panics,
\* the guard inside the PoisonError is dropped
LockPanic_Recover(t) ==
    /\ mutex' = [mutex EXCEPT ![th[t].b] = Locked(@, t)]
    /\ th' = [th EXCEPT ![t].pc = "new_string", ![t].fn = Dispatch(th[t].level)]
    /\ UNCHANGED <<bridges, backend, hist, nOps>>

LockPanic(t) ==
    /\ th' = [th EXCEPT ![t] = Returned(t, th[t].b, th[t].trace, Panic, HoldsLock(t, th[t].b))]
    /\ UNCHANGED <<bridges, mutex, backend, hist, nOps>>

\* self.inner.lock().expect("Failed to lock inner logger"), then the match on level
LogLock_GlobalLock(t) ==
    /\ th[t].pc = "lock"
    /\ \A s \in Slots : CanLock(mutex[s])
    /\ IF mutex[th[t].b].poisoned
       THEN LockPanic(t)
       ELSE /\ mutex' = [mutex EXCEPT ![th[t].b] = Locked(@, t)]
            /\ th' = [th EXCEPT ![t].pc = "new_string", ![t].fn = Dispatch(th[t].level)]
            /\ UNCHANGED <<bridges, backend, hist, nOps>>

LogLock(t) ==
    /\ th[t].pc = "lock"
    /\ CanLock(mutex[th[t].b])
    /\ IF mutex[th[t].b].poisoned
       THEN LockPanic(t)
       ELSE /\ mutex' = [mutex EXCEPT ![th[t].b] = Locked(@, t)]
            /\ th' = [th EXCEPT ![t].pc = "new_string", ![t].fn = Dispatch(th[t].level)]
            /\ UNCHANGED <<bridges, backend, hist, nOps>>

\* log returns: the guard `logger` goes out of scope
LogReturn_KeepLockOnErr(t, ev, res) ==
    /\ mutex' = [mutex EXCEPT ![th[t].b] = IF res = Ok THEN Unlock(@, FALSE) ELSE @]
    /\ hist' = [hist EXCEPT ![th[t].b].ok = IF res = Ok THEN @ + 1 ELSE @,
                            ![th[t].b].failed = @ \/ res # Ok]
    /\ th' = [th EXCEPT ![t] = Returned(t, th[t].b, Append(th[t].trace, ev), res, mutex'[th[t].b].holder = t)]
    /\ UNCHANGED <<bridges, nOps>>

LogReturn_PoisonOnErr(t, ev, res) ==
    /\ mutex' = [mutex EXCEPT ![th[t].b] = Unlock(@, res # Ok)]
    /\ hist' = [hist EXCEPT ![th[t].b].ok = IF res = Ok THEN @ + 1 ELSE @,
                            ![th[t].b].failed = @ \/ res # Ok]
    /\ th' = [th EXCEPT ![t] = Returned(t, th[t].b, Append(th[t].trace, ev), res, mutex'[th[t].b].holder = t)]
    /\ UNCHANGED <<bridges, nOps>>

LogReturn(t, ev, res) ==
    /\ mutex' = [mutex EXCEPT ![th[t].b] = Unlock(@, FALSE)]
    /\ hist' = [hist EXCEPT ![th[t].b].ok = IF res = Ok THEN @ + 1 ELSE @,
                            ![th[t].b].failed = @ \/ res # Ok]
    /\ th' = [th EXCEPT ![t] = Returned(t, th[t].b, Append(th[t].trace, ev), res, mutex'[th[t].b].holder = t)]
    /\ UNCHANGED <<bridges, nOps>>

\* log_error/log_warn/log_info/log_debug return to a caller that keeps its guard
DirectReturn(t, ev, res) ==
    /\ hist' = [hist EXCEPT ![th[t].b].ok = IF res = Ok THEN @ + 1 ELSE @]
    /\ th' = [th EXCEPT ![t] = [Returned(t, th[t].b, Append(th[t].trace, ev), res, HoldsLock(t, th[t].b))
                                    EXCEPT !.pc = "held"]]
    /\ UNCHANGED <<bridges, mutex, nOps>>

Return(t, ev, res) == IF th[t].op = "log" THEN LogReturn(t, ev, res) ELSE DirectReturn(t, ev, res)

\* Self::jstring(logger.env, msg)?: the argument is converted before the invocation
JString_Relookup(t) ==
    /\ th[t].pc = "new_string"
    /\ LET class == FindClass(CATEGORY_CLASS)
           ev == Event(t, "find_class", CATEGORY_CLASS, NullRef, NullRef, class, TRUE)
       IN th' = [th EXCEPT ![t].pc = "call_method", ![t].tmp = JValueObject(NewString(th[t].text)),
                           ![t].trace = Append(@, ev)]
    /\ UNCHANGED <<bridges, mutex, backend, hist, nOps>>

JString(t) ==
    /\ th[t].pc = "new_string"
    /\ \E ok \in BOOLEAN :
         LET str == NewString(th[t].text)
             ev == Event(t, "new_string", th[t].text, NullRef, NullRef, str, ok)
         IN IF ok
            THEN /\ th' = [th EXCEPT ![t].pc = "call_method", ![t].tmp = JValueObject(str),
                                     ![t].trace = Append(@, ev)]
                 /\ UNCHANGED <<bridges, mutex, backend, hist, nOps>>
            ELSE /\ Return(t, ev, Err(ev.cause))
                 /\ UNCHANGED backend

\* the record reaches log4j
Invoke_Twice(t) == backend' = [backend EXCEPT ![th[t].b] = @ + 2]

Invoke(t) == backend' = [backend EXCEPT ![th[t].b] = @ + 1]

\* logger.env.call_method_unchecked(logger.logger, logger.<level>_method, Void, &[jstring])?
CallMethod_Retry(t) ==
    /\ th[t].pc = "call_method"
    /\ \E ok \in BOOLEAN :
         LET inner == bridges[th[t].b]
             mid == MethodOf(th[t].fn, inner)
             ev == Event(t, "call_method", th[t].tmp.obj.chars, inner.logger, mid, NullRef, ok)
         IN IF ok
            THEN /\ Invoke(t)
                 /\ Return(t, ev, Ok)
            ELSE IF Len(th[t].trace) < 2
            THEN /\ th' = [th EXCEPT ![t].trace = Append(@, ev)]
                 /\ UNCHANGED <<bridges, mutex, backend, hist, nOps>>
            ELSE /\ Return(t, ev, Err(ev.cause))
                 /\ UNCHANGED backend

CallMethod(t) ==
    /\ th[t].pc = "call_method"
    /\ \E ok \in BOOLEAN :
         LET inner == bridges[th[t].b]
             mid == MethodOf(th[t].fn, inner)
             ev == Event(t, "call_method", th[t].tmp.obj.chars, inner.logger, mid, NullRef, ok)
         IN IF ok
            THEN /\ Invoke(t)
                 /\ Return(t, ev, Ok)
            ELSE /\ Return(t, ev, Err(ev.cause))
                 /\ UNCHANGED backend

\* the caller of new or log has its result and goes on; a panicking thread is gone
Continue(t) ==
    /\ th[t].pc = "returned"
    /\ th' = [th EXCEPT ![t] = IF th[t].res = Panic THEN DeadThread ELSE IdleThread]
    /\ UNCHANGED <<bridges, mutex, backend, hist, nOps>>

\* ------------------------------------------------------------- callers inside the module
\* let inner_logger = logger.inner.lock().expect("Failed to lock inner logger");
CallerLock(t, b) ==
    /\ th[t].pc = "idle"
    /\ nOps < MaxOps
    /\ Exists(b)
    /\ CanLock(mutex[b])
    /\ IF mutex[b].poisoned
       THEN /\ th' = [th EXCEPT ![t] = DeadThread]
            /\ UNCHANGED mutex
       ELSE /\ mutex' = [mutex EXCEPT ![b] = Locked(@, t)]
            /\ th' = [th EXCEPT ![t] = [IdleThread EXCEPT !.pc = "held", !.b = b]]
    /\ UNCHANGED <<bridges, backend, hist, nOps>>

\* JavaLogger::log_info(&inner_logger, "Info log!")
Direct(t, fn, msg) ==
    /\ th[t].pc = "held"
    /\ th[t].res = NoRes
    /\ nOps < MaxOps
    /\ nOps' = nOps + 1
    /\ th' = [th EXCEPT ![t] = [IdleThread EXCEPT !.pc = "new_string", !.op = "direct",
                                                  !.b = th[t].b, !.fn = fn, !.text = msg,
                                                  !.env = bridges[th[t].b].env,
                                                  !.heldBefore = HoldsLock(t, th[t].b),
                                                  !.afterFailure = hist[th[t].b].failed]]
    /\ UNCHANGED <<bridges, mutex, backend, hist>>

\* .expect("Failed to log to INFO") on an Err: the thread panics, its guard is dropped while unwinding
CallerExpect(t) ==
    /\ th[t].pc = "held"
    /\ th[t].res.tag = "Err"
    /\ mutex' = [mutex EXCEPT ![th[t].b] = Unlock(@, TRUE)]
    /\ hist' = [hist EXCEPT ![th[t].b].panicked = TRUE]
    /\ th' = [th EXCEPT ![t] = DeadThread]
    /\ UNCHANGED <<bridges, backend, nOps>>

\* the caller's guard goes out of scope
CallerDrop(t) ==
    /\ th[t].pc = "held"
    /\ th[t].res.tag # "Err"
    /\ mutex' = [mutex EXCEPT ![th[t].b] = Unlock(@, FALSE)]
    /\ th' = [th EXCEPT ![t] = IdleThread]
    /\ UNCHANGED <<bridges, backend, hist, nOps>>

\* ------------------------------------------------------------- specification
Next ==
    \/ \E t \in Threads, name \in ClassNames : New(t, name)
    \/ \E t \in Threads : FindClassLogManager(t)
    \/ \E t \in Threads : JStringName(t)
    \/ \E t \in Threads : GetLogger(t)
    \/ \E t \in Threads : FindClassCategory(t)
    \/ \E t \in Threads : GetMethodInfo(t)
    \/ \E t \in Threads : GetMethodError(t)
    \/ \E t \in Threads : GetMethodWarn(t)
    \/ \E t \in Threads : GetMethodDebug(t)
    \/ \E t \in Threads, b \in Slots, level \in LogLevel, msg \in Messages : Log(t, b, level, msg)
    \/ \E t \in Threads : LogLock(t)
    \/ \E t \in Threads : JString(t)
    \/ \E t \in Threads : CallMethod(t)
    \/ \E t \in Threads : Continue(t)
    \/ \E t \in Threads, b \in Slots : CallerLock(t, b)
    \/ \E t \in Threads, fn \in LogFns, msg \in Messages : Direct(t, fn, msg)
    \/ \E t \in Threads : CallerExpect(t)
    \/ \E t \in Threads : CallerDrop(t)

Spec == Init /\ [][Next]_vars

\* every step a running thread takes on its own: the returns of the JNI calls it is
\* inside, the acquisition of a free lock, and the caller going on with what it got
Step(t) ==
    \/ FindClassLogManager(t)
    \/ JStringName(t)
    \/ GetLogger(t)
    \/ FindClassCategory(t)
    \/ GetMethodInfo(t)
    \/ GetMethodError(t)
    \/ GetMethodWarn(t)
    \/ GetMethodDebug(t)
    \/ LogLock(t)
    \/ JString(t)
    \/ CallMethod(t)
    \/ Continue(t)
    \/ CallerExpect(t)
    \/ CallerDrop(t)

\* fair scheduling: a thread that can take a step eventually takes one; whether a
\* thread starts another operation is up to the program
\* Whether a log call ends does not depend on what is logged: the fair
\* specification draws one category name, one message and one level.
FairNext ==
    \/ \E t \in Threads : New(t, "app.Test")
    \/ \E t \in Threads : FindClassLogManager(t)
    \/ \E t \in Threads : JStringName(t)
    \/ \E t \in Threads : GetLogger(t)
    \/ \E t \in Threads : FindClassCategory(t)
    \/ \E t \in Threads : GetMethodInfo(t)
    \/ \E t \in Threads : GetMethodError(t)
    \/ \E t \in Threads : GetMethodWarn(t)
    \/ \E t \in Threads : GetMethodDebug(t)
    \/ \E t \in Threads, b \in Slots : Log(t, b, "Info", "A")
    \/ \E t \in Threads : LogLock(t)
    \/ \E t \in Threads : JString(t)
    \/ \E t \in Threads : CallMethod(t)
    \/ \E t \in Threads : Continue(t)
    \/ \E t \in Threads, b \in Slots : CallerLock(t, b)
    \/ \E t \in Threads : Direct(t, "log_info", "A")
    \/ \E t \in Threads : CallerExpect(t)
    \/ \E t \in Threads : CallerDrop(t)

FairSpec == Init /\ [][FairNext]_vars /\ \A t \in Threads : WF_vars(Step(t))


\* ------------------------------------------------------------- vocabulary of the claims
\* the thread has its result in hand: log or new returned, or a log_* function
\* returned to the caller that holds the guard
Finished(t) == th[t].pc = "returned" \/ (th[t].pc = "held" /\ th[t].res # NoRes)

\* the thread is inside a JNI call
CallPcs ==
    {"find_class_lm", "new_string_name", "get_logger", "find_class_category", "get_method_info",
     "get_method_error", "get_method_warn", "get_method_debug", "new_string", "call_method"}

InCall(t) == th[t].pc \in CallPcs

\* the thread is inside the convert-then-invoke sequence of a log call
InLogSequence(t) == th[t].op = "log" /\ th[t].pc \in {"new_string", "call_method"}

AllOk(trace) == \A i \in DOMAIN trace : trace[i].ok

\* the Java method name of a level
LevelMethod(level) ==
    CASE level = "Error" -> "error"
      [] level = "Warn" -> "warn"
      [] level = "Info" -> "info"
      [] level = "Debug" -> "debug"

\* the level a log_* function stands for
FnLevel(fn) ==
    CASE fn = "log_error" -> "Error"
      [] fn = "log_warn" -> "Warn"
      [] fn = "log_info" -> "Info"
      [] fn = "log_debug" -> "Debug"

\* what the foreign runtime resolves for a category name and for a level
LoggerFor(name) ==
    JValueL(CallStaticMethod(FindClass(LOG_MANAGER_CLASS), "getLogger", GET_LOGGER_SIG,
                             JValueObject(NewString(name))))

HandleFor(level) == GetMethodId(FindClass(CATEGORY_CLASS), LevelMethod(level), LOG_METHOD_SIG)

\* a fully constructed bridge for that environment and category name
FullBridge(env, name) ==
    [env |-> env, logger |-> LoggerFor(name), info_method |-> HandleFor("Info"),
     error_method |-> HandleFor("Error"), warn_method |-> HandleFor("Warn"),
     debug_method |-> HandleFor("Debug")]

\* the JNI calls of a leveled log of `text` on bridge b: one conversion of the message,
\* then, if it succeeded, one invocation of the level's handle on the bridge's logger
LeveledCalls(trace, b, level, text) ==
    /\ Len(trace) \in {1, 2}
    /\ trace[1].kind = "new_string" /\ trace[1].arg = text
    /\ trace[1].ok <=> Len(trace) = 2
    /\ Len(trace) = 2 =>
         /\ trace[2].kind = "call_method"
         /\ trace[2].mid = HandleFor(level)
         /\ trace[2].obj = LoggerFor(hist[b].name)
         /\ trace[2].arg = text

\* the result of an operation that made these JNI calls: success, or the first failure wrapped
ResultOf(trace) ==
    IF AllOk(trace) THEN Ok
    ELSE [tag |-> "Err", err |-> [kind |-> "Java", cause |-> trace[Len(trace)].cause]]

\* ------------------------------------------------------------- C1
\* C1: log calls on one bridge are totally ordered: while one log call is between
\* the start of its new_string and the end of its method invocation, no other log
\* call on that bridge is inside its own convert-then-invoke sequence.
C1_LogCallsSerialized ==
    \A t, u \in Threads :
        (t # u /\ InLogSequence(t) /\ InLogSequence(u)) => th[t].b # th[u].b

\* a log call has converted its message and is inside the invocation while another
\* log call on the same bridge waits for the lock
C1_Witness ==
    \E t, u \in Threads :
        /\ t # u
        /\ th[t].op = "log" /\ th[t].pc = "call_method"
        /\ th[u].op = "log" /\ th[u].pc = "lock" /\ th[u].b = th[t].b

\* ------------------------------------------------------------- C2
\* C2: per bridge, the records that reached the backend are exactly as many as the
\* leveled calls that returned success, every successful log call made exactly one
\* invocation, and the bridge's logger reference and four handles are what
\* construction put there.
C2_OneInvocationPerCall ==
    /\ \A b \in Slots : backend[b] = hist[b].ok
    /\ \A t \in Threads :
         (Finished(t) /\ th[t].op = "log" /\ th[t].res = Ok) =>
             Cardinality({i \in DOMAIN th[t].trace : th[t].trace[i].kind = "call_method"}) = 1
    /\ \A b \in Slots : Exists(b) => bridges[b] = FullBridge(bridges[b].env, hist[b].name)

\* two threads each called log once on the same bridge, both calls returned success,
\* and two records reached the backend
C2_Witness ==
    \E t, u \in Threads :
        /\ t # u
        /\ th[t].pc = "returned" /\ th[t].op = "log" /\ th[t].res = Ok
        /\ th[u].pc = "returned" /\ th[u].op = "log" /\ th[u].res = Ok
        /\ th[t].b = th[u].b
        /\ backend[th[t].b] = 2

\* ------------------------------------------------------------- C3
\* C3: a log call that has returned, with success or with an error, no longer holds
\* the bridge's lock; the lock is only ever held by a thread that is still between
\* acquiring it and returning.
C3_LockReleasedOnReturn ==
    /\ \A t \in Threads :
         (th[t].pc = "returned" /\ th[t].op = "log") =>
             (~th[t].heldAfter /\ ~HoldsLock(t, th[t].b))
    /\ \A b \in Slots :
         mutex[b].holder # NoThread =>
             /\ th[mutex[b].holder].b = b
             /\ th[mutex[b].holder].pc \in {"new_string", "call_method", "held"}

\* one log call returned a conversion failure and another an invocation failure
C3_Witness ==
    \E t, u \in Threads :
        /\ th[t].pc = "returned" /\ th[t].op = "log" /\ th[t].res.tag = "Err" /\ Len(th[t].trace) = 1
        /\ th[u].pc = "returned" /\ th[u].op = "log" /\ th[u].res.tag = "Err" /\ Len(th[u].trace) = 2
        /\ th[t].b = th[u].b

\* ------------------------------------------------------------- C4
\* C4: once a log call on a bridge has returned an error, the bridge is still usable:
\* its lock is poisoned only if a thread panicked while holding it, the lock is held
\* only by a call still in progress, and a later log call whose conversion and
\* invocation both succeed returns success (it panics at the lock only if a thread
\* panicked while holding it).
C4_FailureLeavesBridgeUsable ==
    /\ \A b \in Slots :
         hist[b].failed =>
             /\ mutex[b].poisoned => hist[b].panicked
             /\ mutex[b].holder # NoThread =>
                  th[mutex[b].holder].pc \notin {"idle", "lock", "returned", "panicked"}
    /\ \A t \in Threads :
         (th[t].pc = "returned" /\ th[t].op = "log" /\ th[t].afterFailure) =>
             /\ th[t].res = Panic => hist[th[t].b].panicked
             /\ (Len(th[t].trace) = 2 /\ AllOk(th[t].trace)) => th[t].res = Ok

\* a log call that started after a failed log call on the same bridge returned success
C4_Witness ==
    \E t \in Threads :
        /\ th[t].pc = "returned" /\ th[t].op = "log" /\ th[t].afterFailure
        /\ th[t].res = Ok
        /\ ~hist[th[t].b].panicked

\* ------------------------------------------------------------- C5
\* C5: a log(level, message) that returned success made exactly two JNI calls: the
\* conversion of its message, then one invocation of the handle resolved under the
\* level's method name on the logger obtained for the bridge's category name, with
\* the converted message as argument.
C5_LogInvokesLevelHandle ==
    \A t \in Threads :
        (th[t].pc = "returned" /\ th[t].op = "log" /\ th[t].res = Ok) =>
            /\ Len(th[t].trace) = 2
            /\ AllOk(th[t].trace)
            /\ LeveledCalls(th[t].trace, th[t].b, th[t].level, th[t].text)
            /\ bridges[th[t].b].logger.category = hist[th[t].b].name

\* log(Error, "") returned success
C5_Witness ==
    \E t \in Threads :
        /\ th[t].pc = "returned" /\ th[t].op = "log" /\ th[t].res = Ok
        /\ th[t].level = "Error" /\ th[t].text = ""
        /\ th[t].trace[2].mid.name = "error"


\* ------------------------------------------------------------- C6
\* C6: new is all-or-nothing: when any of its JNI calls fails it returns the Java
\* error and no bridge; every bridge that exists was returned by a successful new
\* and holds its logger reference and all four method handles.
C6_NewAllOrNothing ==
    /\ \A t \in Threads :
         (th[t].pc = "returned" /\ th[t].op = "new") =>
             IF AllOk(th[t].trace)
             THEN th[t].res = Ok /\ Len(th[t].trace) = 8 /\ Exists(th[t].b)
             ELSE th[t].res.tag = "Err" /\ th[t].res.err.kind = "Java" /\ th[t].b = NoSlot
    /\ \A b \in Slots :
         Exists(b) =>
             /\ hist[b].built
             /\ bridges[b].logger # NullRef
             /\ bridges[b] = FullBridge(bridges[b].env, hist[b].name)

\* new failed at the resolution of the last handle, after seven successful JNI calls,
\* and no bridge exists
C6_Witness ==
    /\ \E t \in Threads :
         /\ th[t].pc = "returned" /\ th[t].op = "new" /\ th[t].res.tag = "Err"
         /\ Len(th[t].trace) = 8
    /\ \A b \in Slots : ~Exists(b)

\* ------------------------------------------------------------- C7
\* C7 as stated: every JNI call of every operation, new included, is made by a
\* thread that holds the bridge's lock.
C7_EveryCallUnderLock ==
    \A t \in Threads : \A i \in DOMAIN th[t].trace : th[t].trace[i].locked

\* C7, amended: every JNI call of log and of the log_* functions is made by a thread
\* that holds the bridge's lock; the JNI calls of new are made with no lock held
\* (the lock is created when new returns).
C7_LogCallsUnderLock ==
    \A t \in Threads : \A i \in DOMAIN th[t].trace :
        th[t].trace[i].locked <=> th[t].op \in {"log", "direct"}

\* a log call has made both its JNI calls while a new has made some of its own
C7_Witness ==
    \E t, u \in Threads :
        /\ th[t].op = "log" /\ Len(th[t].trace) = 2
        /\ th[u].op = "new" /\ Len(th[u].trace) >= 1

\* ------------------------------------------------------------- C8
\* C8: no two threads are inside JNI calls through the same environment handle at
\* the same time.
C8_EnvNeverShared ==
    \A t, u \in Threads :
        (t # u /\ InCall(t) /\ InCall(u)) => th[t].env # th[u].env

\* ------------------------------------------------------------- C9
\* C9 as stated: a log_* function acquires the bridge's lock itself and releases it
\* before it returns, as log does.
C9_DirectLocksItself ==
    \A t \in Threads :
        (Finished(t) /\ th[t].op = "direct") => (~th[t].heldBefore /\ ~th[t].heldAfter)

\* C9, amended: a log_* function is entered by a caller that already holds the
\* bridge's lock and returns with the lock still held by that caller; in between it
\* makes the JNI calls of log with the corresponding level (one conversion, then one
\* invocation of that level's handle) and returns the same result.
C9_DirectUnderCallersLock ==
    /\ \A t \in Threads :
         (Finished(t) /\ th[t].op = "direct") =>
             /\ th[t].heldBefore /\ th[t].heldAfter /\ HoldsLock(t, th[t].b)
             /\ LeveledCalls(th[t].trace, th[t].b, FnLevel(th[t].fn), th[t].text)
             /\ th[t].res = ResultOf(th[t].trace)
    /\ \A t \in Threads :
         (Finished(t) /\ th[t].op = "log" /\ th[t].res # Panic) =>
             /\ ~th[t].heldBefore /\ ~th[t].heldAfter
             /\ LeveledCalls(th[t].trace, th[t].b, th[t].level, th[t].text)
             /\ th[t].res = ResultOf(th[t].trace)

\* log_info returned success to a caller that still holds the lock
C9_Witness ==
    \E t \in Threads :
        /\ th[t].pc = "held" /\ th[t].op = "direct" /\ th[t].fn = "log_info"
        /\ th[t].res = Ok /\ HoldsLock(t, th[t].b)
        /\ th[t].trace[2].mid.name = "info"

\* ------------------------------------------------------------- C10
\* C10 as stated: every operation ends in success or in the Java error that carries
\* the cause of the JNI call that failed, and in nothing else.
C10_OnlyJavaErrors ==
    \A t \in Threads : Finished(t) => th[t].res = ResultOf(th[t].trace)

\* C10, amended: an operation in which a JNI call failed returns the Java error that
\* carries that call's cause, unchanged; the one other failure outcome is the panic
\* of log at lock acquisition, before any JNI call, when the lock is poisoned.
C10_JavaErrorOrLockPanic ==
    \A t \in Threads :
        Finished(t) =>
            IF th[t].res = Panic
            THEN th[t].op = "log" /\ th[t].trace = <<>> /\ mutex[th[t].b].poisoned
            ELSE th[t].res = ResultOf(th[t].trace)

\* a log call returned the error of a failed invocation
C10_Witness ==
    \E t \in Threads :
        /\ th[t].pc = "returned" /\ th[t].op = "log" /\ Len(th[t].trace) = 2
        /\ ~th[t].trace[2].ok
        /\ th[t].res = [tag |-> "Err", err |-> [kind |-> "Java", cause |-> "JavaException"]]

\* ------------------------------------------------------------- C11
\* C11 as stated: under fair scheduling every log call that has started eventually
\* acquires the lock and returns to its caller, with success or with an error.
C11_LogAlwaysReturns ==
    \A t \in Threads :
        (th[t].op = "log" /\ th[t].pc = "lock")
            ~> (th[t].op = "log" /\ th[t].pc = "returned" /\ th[t].res # Panic)

\* C11, amended: under fair scheduling no log call is stuck. A log call that waits
\* for the lock ends (it acquires the lock and returns, or it panics at lock
\* acquisition when the lock is poisoned) unless another thread holds the lock
\* again; every thread that holds a lock releases it; so a log call waits forever
\* only while other threads take the lock again and again.
C11_LogEndsUnlessOvertaken ==
    /\ \A t \in Threads :
         (th[t].op = "log" /\ th[t].pc = "lock")
             ~> \/ th[t].op = "log" /\ th[t].pc = "returned"
                \/ th[t].op = "log" /\ th[t].pc = "lock" /\ mutex[th[t].b].holder \notin {NoThread, t}
    /\ \A t \in Threads : \A b \in Slots : HoldsLock(t, b) ~> ~HoldsLock(t, b)

\* a log call waits at the lock of a bridge while another log call holds it and is
\* inside the conversion of its message
C11_Witness ==
    \E t, u \in Threads :
        /\ th[t].op = "log" /\ th[t].pc = "lock"
        /\ th[u].op = "log" /\ th[u].pc = "new_string"
        /\ th[u].b = th[t].b /\ mutex[th[t].b].holder = u
        /\ ~mutex[th[t].b].poisoned

\* ------------------------------------------------------------- C12
\* the JNI calls of that kind in a trace
CallsOfKind(trace, kind) == {i \in DOMAIN trace : trace[i].kind = kind}

\* C12: the logger reference and the four method handles are resolved once, by the
\* new that built the bridge (one factory call, one resolution per level name), and
\* never again: no step changes the InnerLogger of a bridge that exists, and every
\* JNI call of a log call or a log_* function, successful or failed, is a string
\* conversion or a method invocation.
C12_ResolvedOnceAtConstruction ==
    [][/\ \A b \in Slots : Exists(b) => bridges'[b] = bridges[b]
       /\ \A t \in Threads :
            th'[t].op \in {"log", "direct"} =>
                \A i \in DOMAIN th'[t].trace : th'[t].trace[i].kind \in {"new_string", "call_method"}
       /\ \A t \in Threads :
            (th'[t].op = "new" /\ th'[t].pc = "returned" /\ th'[t].res = Ok) =>
                /\ Cardinality(CallsOfKind(th'[t].trace, "call_static_method")) = 1
                /\ Cardinality(CallsOfKind(th'[t].trace, "get_method_id")) = 4
                /\ {th'[t].trace[i].arg : i \in CallsOfKind(th'[t].trace, "get_method_id")}
                       = {LevelMethod(l) : l \in LogLevel}]_vars

\* a bridge took a failed log call and a successful one, the latter just returned,
\* and the bridge still holds what its construction resolved
C12_Witness ==
    \E t \in Threads :
        /\ th[t].pc = "returned" /\ th[t].op = "log" /\ th[t].res = Ok
        /\ hist[th[t].b].failed /\ hist[th[t].b].ok >= 1
        /\ bridges[th[t].b] = FullBridge(bridges[th[t].b].env, hist[th[t].b].name)

\* ------------------------------------------------------------- C13
\* C13: two bridges constructed for the same category name are independent. Each
\* new that returns a bridge has resolved the four handles itself; each bridge has
\* its own lock, so a log call that waits does so only for the lock of its own
\* bridge and goes on as soon as that lock is free, whoever holds the lock of
\* another bridge; and no step of a log call changes the InnerLogger, the lock or
\* the record count of another bridge.
C13_BridgesIndependent ==
    [][/\ \A t \in Threads :
            (th'[t].op = "new" /\ th'[t].pc = "returned" /\ th'[t].res = Ok) =>
                /\ Cardinality(CallsOfKind(th'[t].trace, "get_method_id")) = 4
                /\ \A i \in DOMAIN th'[t].trace : th'[t].trace[i].thread = t
       /\ \A t \in Threads :
            (th[t].op = "log" /\ th[t].pc = "lock" /\ mutex[th[t].b].holder = NoThread) =>
                ENABLED LogLock(t)
       /\ \A t \in Threads :
            (th[t].op \in {"log", "direct"} /\ th'[t] # th[t]) =>
                \A c \in Slots \ {th[t].b} :
                    /\ bridges'[c] = bridges[c]
                    /\ mutex'[c] = mutex[c]
                    /\ backend'[c] = backend[c]]_vars

\* two bridges exist for the same category name; a log call on the first holds its
\* lock and is inside the invocation while another thread holds the lock of the second
C13_Witness ==
    \E t, u \in Threads :
        /\ Exists(1) /\ Exists(2) /\ hist[1].name = hist[2].name
        /\ th[t].op = "log" /\ th[t].b = 1 /\ th[t].pc = "call_method" /\ HoldsLock(t, 1)
        /\ u # t /\ HoldsLock(u, 2)

\* ------------------------------------------------------------- C14
\* C14: every JNI call goes through the environment handle of the thread that makes
\* the call, which is the thread that attached that handle.
C14_EnvOnAttachingThread ==
    \A t \in Threads : \A i \in DOMAIN th[t].trace :
        th[t].trace[i].env = th[t].trace[i].thread

\* ------------------------------------------------------------- C15
\* the boundary operations of construct, in the order of its four steps: the
\* factory class; the category name converted and the factory method called; the
\* Category class; the four handles
ConstructOrder ==
    <<"find_class", "new_string", "call_static_method", "find_class",
      "get_method_id", "get_method_id", "get_method_id", "get_method_id">>

\* C15: the JNI calls of a new are, in this order: find_class of the LogManager
\* class; new_string of the category name, then call_static_method getLogger on
\* that class; find_class of the Category class; four get_method_id on that class,
\* one per level name. It stops at the first failure: a failed call is the last
\* call the new makes and the new has returned that call's error.
C15_ConstructInOrder ==
    \A t \in Threads :
        th[t].op = "new" =>
            LET trace == th[t].trace
                n == Len(trace)
            IN /\ n <= 8
               /\ \A i \in 1..n : trace[i].kind = ConstructOrder[i]
               /\ n >= 1 => trace[1].arg = LOG_MANAGER_CLASS
               /\ n >= 2 => trace[2].arg = th[t].text
               /\ n >= 3 => (trace[3].arg = "getLogger" /\ trace[3].obj = trace[1].val)
               /\ n >= 4 => trace[4].arg = CATEGORY_CLASS
               /\ \A i \in 5..n : trace[i].obj = trace[4].val
               /\ \A i, j \in 5..n : i # j => trace[i].arg # trace[j].arg
               /\ \A i \in 5..n : trace[i].arg \in {LevelMethod(l) : l \in LogLevel}
               /\ \A i \in 1..n :
                    ~trace[i].ok =>
                        /\ i = n
                        /\ th[t].pc = "returned"
                        /\ th[t].res = ResultOf(trace)
               /\ th[t].pc = "returned" => (n = 8 \/ ~trace[n].ok)

\* a new found the factory class and converted the category name, the factory call
\* failed, and the new returned its error without looking up the Category class
C15_Witness ==
    \E t \in Threads :
        /\ th[t].op = "new" /\ th[t].pc = "returned" /\ th[t].res.tag = "Err"
        /\ Len(th[t].trace) = 3
        /\ th[t].trace[3].kind = "call_static_method" /\ ~th[t].trace[3].ok

\* ------------------------------------------------------------- C16
\* C16: a log call (or log_* function) makes no JNI call before it has the lock;
\* with the lock it converts its own message once, then invokes once; every call
\* it makes is made under the lock. A failed conversion is its last JNI call (no
\* invocation follows), a failed invocation is its last JNI call (no retry), and in
\* both cases the call has returned that failure's error. A call that has returned
\* success or an error made exactly one conversion, whatever was logged before.
C16_OneConversionNoRetry ==
    \A t \in Threads :
        th[t].op \in {"log", "direct"} =>
            LET trace == th[t].trace
                n == Len(trace)
            IN /\ th[t].pc = "lock" => n = 0
               /\ n <= 2
               /\ n >= 1 => (trace[1].kind = "new_string" /\ trace[1].arg = th[t].text)
               /\ n = 2 => (trace[2].kind = "call_method" /\ trace[2].arg = th[t].text)
               /\ \A i \in 1..n : trace[i].locked
               /\ \A i \in 1..n :
                    ~trace[i].ok =>
                        /\ i = n
                        /\ Finished(t)
                        /\ th[t].res = ResultOf(trace)
               /\ (Finished(t) /\ th[t].res # Panic) =>
                    Cardinality(CallsOfKind(trace, "new_string")) = 1
               /\ th[t].pc = "call_method" => (n = 1 /\ trace[1].ok)

\* on one bridge a log call of a message returned success, and a log call of the
\* same message returned the error of its failed conversion without invoking
C16_Witness ==
    \E t, u \in Threads :
        /\ th[t].pc = "returned" /\ th[t].op = "log" /\ th[t].res = Ok
        /\ th[u].pc = "returned" /\ th[u].op = "log" /\ th[u].res.tag = "Err"
        /\ th[u].b = th[t].b /\ th[u].text = th[t].text
        /\ Len(th[u].trace) = 1 /\ th[u].trace[1].kind = "new_string"
        /\ Cardinality(CallsOfKind(th[t].trace, "new_string")) = 1

\* ------------------------------------------------------------- C17
\* C17: a step in which a log call returns an error leaves the lock unpoisoned; a
\* lock becomes poisoned only in a step in which the thread that holds it panics,
\* and stays poisoned; a log call that gets to a poisoned lock panics there, having
\* made no JNI call, and a log call panics only there.
C17_PoisonOnlyByPanic ==
    [][/\ \A t \in Threads :
            (th[t].op = "log" /\ th[t].pc # "returned" /\ th'[t].pc = "returned"
               /\ th'[t].res.tag = "Err") =>
                (~mutex[th[t].b].poisoned /\ ~mutex'[th[t].b].poisoned)
       /\ \A b \in Slots :
            (mutex'[b].poisoned /\ ~mutex[b].poisoned) =>
                \E t \in Threads : HoldsLock(t, b) /\ th'[t].pc = "panicked"
       /\ \A b \in Slots : mutex[b].poisoned => mutex'[b].poisoned
       /\ \A t \in Threads :
            (th[t].op = "log" /\ th[t].pc = "lock" /\ th'[t] # th[t]) =>
                IF mutex[th[t].b].poisoned
                THEN /\ th'[t].pc = "returned" /\ th'[t].res = Panic
                     /\ th'[t].trace = <<>>
                     /\ mutex' = mutex /\ backend' = backend
                ELSE th'[t].pc = "new_string" /\ HoldsLock(t, th[t].b)'
       /\ \A t \in Threads :
            (th'[t].res = Panic /\ th[t].res # Panic) =>
                (th[t].op = "log" /\ th[t].pc = "lock" /\ mutex[th[t].b].poisoned)]_vars

\* a thread that held the lock panicked on the error of a log_* function, and a log
\* call on that bridge has now panicked at the lock without a JNI call
C17_Witness ==
    \E t \in Threads :
        /\ th[t].op = "log" /\ th[t].pc = "returned" /\ th[t].res = Panic
        /\ th[t].trace = <<>>
        /\ mutex[th[t].b].poisoned /\ hist[th[t].b].panicked
        /\ mutex[th[t].b].holder = NoThread

====
